---------------------------- MODULE Spec2Model ----------------------------
(***************************************************************************)
(* Diamond-square heightmap generator of experiments/fractal.py            *)
(* (class CoastlineGenerator).                                             *)
(*                                                                         *)
(* Elevations are exact rationals, held as integer numerators over the     *)
(* common denominator Scale.  A call of random.random() is a choice q from *)
(* DrawSet, standing for the value q/4 in [0, 1).  After normalization a   *)
(* cell is the fraction num/den with den = max - min; den = 0 is the       *)
(* floating-point result of 0/0 (NaN).                                     *)
(***************************************************************************)
EXTENDS Integers, Sequences, FiniteSets, TLC

\* ------------------------------------------------------------- bounds
\* Largest size handed to the constructor.
MaxSize == 9
\* Largest number of random.random() results that differ from 0.5 in one call
\* of create_coastline_image.
MaxOddDraws == 1
\* Largest size for which a second call of create_coastline_image is explored.
MaxRerunSize == 5

\* ---------------------------------------------------------- constants
\* self.roughness = 0.6 = RoughnessNum / RoughnessDen
RoughnessNum == 3
RoughnessDen == 5

\* random.random() results, in quarters: 0.0, 0.5, 0.75
DrawSet == {0, 2, 3}

RECURSIVE Halvings(_)
\* How often n can be floor-halved while it is > 1.
Halvings(n) == IF n <= 1 THEN 0 ELSE 1 + Halvings(n \div 2)

RECURSIVE Pow(_, _)
Pow(b, e) == IF e = 0 THEN 1 ELSE b * Pow(b, e - 1)

\* Common denominator of all elevations: every pass divides by 4 (diamond)
\* and by 2, 3 or 4 (square), offsets are multiples of 1/(20 * 2^pass).
Scale == 20 * Pow(48, Halvings(MaxSize - 1))

VARIABLES
    pc,          \* position in create_coastline_image / generate_coastline
    size,        \* self.size
    heightmap,   \* self.heightmap: cell <<row, col>> -> elevation
    step_size,   \* local of diamond_square
    range_size,  \* local of diamond_square, scaled by Scale
    y, x,        \* loop indices of the running step
    draws,       \* log of the process-wide random.random() calls
    written,     \* cell -> number of assignments to it in this run
    passes,      \* completed iterations of the while loop in this run
    raw,         \* the grid diamond_square left, kept when line 76 rebinds it
    runs,        \* calls of create_coastline_image so far
    first        \* heightmap of the first call once normalized, <<>> before

vars == <<pc, size, heightmap, step_size, range_size, y, x, draws, written,
          passes, raw, runs, first>>

Cells(n) == (0 .. n - 1) \X (0 .. n - 1)

\* numpy index: a negative index counts from the end.
Ix(i, n) == IF i < 0 THEN i + n ELSE i

\* numpy raises IndexError outside [-n, n).
InBounds(i, n) == -n <= i /\ i < n

\* Draws of call r that are not 0.5, among the logged calls.
OddDraws(log, r) ==
    Cardinality({i \in 1 .. Len(log) : log[i].run = r /\ log[i].q # 2})

\* (random.random() - 0.5) * current_range * self.roughness
get_random_offset(q, current_range) ==
    ((q - 2) * current_range * RoughnessNum) \div (4 * RoughnessDen)

\* random.random() as an elevation
RandomValue(q) == (q * Scale) \div 4

Entry(kind, s, cy, cx, q, cnt) ==
    [run |-> runs, kind |-> kind, step |-> s, y |-> cy, x |-> cx, q |-> q,
     count |-> cnt]

Init ==
    /\ pc = "new"
    /\ size = 0
    /\ heightmap = <<>>
    /\ step_size = 0
    /\ range_size = 0
    /\ y = 0
    /\ x = 0
    /\ draws = <<>>
    /\ written = <<>>
    /\ passes = 0
    /\ raw = <<>>
    /\ runs = 0
    /\ first = <<>>

\* CoastlineGenerator(size): no check of size is made.
Construct ==
    /\ pc = "new"
    /\ \E n \in 1 .. MaxSize :
        /\ size' = n
        /\ heightmap' = [c \in Cells(n) |-> 0]
        /\ written' = [c \in Cells(n) |-> 0]
    /\ pc' = "corners"
    /\ runs' = runs + 1
    /\ passes' = 0
    /\ raw' = <<>>
    /\ UNCHANGED <<step_size, range_size, y, x, draws, first>>

\* One assignment self.heightmap[i, j] = v
Assign(h, i, j, v) == [h EXCEPT ![<<Ix(i, size), Ix(j, size)>>] = v]

Count(w, i, j) == [w EXCEPT ![<<Ix(i, size), Ix(j, size)>>] = @ + 1]

\* diamond_square, lines 19-25: the four corners, then the loop's locals.
InitCorners ==
    /\ pc = "corners"
    /\ \E q1, q2, q3, q4 \in DrawSet :
        /\ heightmap' = Assign(Assign(Assign(Assign(heightmap,
                            0, 0, RandomValue(q1)),
                            0, -1, RandomValue(q2)),
                            -1, 0, RandomValue(q3)),
                            -1, -1, RandomValue(q4))
        /\ draws' = draws \o << Entry("corner", 0, 0, 0, q1, 0),
                                Entry("corner", 0, 0, size - 1, q2, 0),
                                Entry("corner", 0, size - 1, 0, q3, 0),
                                Entry("corner", 0, size - 1, size - 1, q4, 0) >>
    /\ OddDraws(draws', runs) <= MaxOddDraws
    /\ written' = Count(Count(Count(Count(written, 0, 0), 0, -1), -1, 0), -1, -1)
    /\ step_size' = size - 1
    /\ range_size' = Scale
    /\ pc' = "while"
    /\ UNCHANGED <<size, y, x, passes, raw, runs, first>>

\* The condition of the while loop, line 27.
LoopCond(s) == s > 1

\* while step_size > 1
LoopTest ==
    /\ pc = "while"
    /\ IF LoopCond(step_size)
         THEN /\ pc' = "diamond"
              /\ y' = 0
              /\ x' = 0
         ELSE /\ pc' = "normalize"
              /\ UNCHANGED <<y, x>>
    /\ UNCHANGED <<size, heightmap, step_size, range_size, draws, written,
                   passes, raw, runs, first>>

\* A square step that starts every row on the coarse lattice.
SquareStartXLattice(cy, half_step, s) == cy % s

\* First x of the inner range of the square step, line 46.
SquareStartX(cy, half_step, s) == (cy + half_step) % s

\* A diamond step that reads the lower left corner twice and the upper right
\* corner never.
DiamondReadsRepeated(cy, cx, s) ==
    << <<cy, cx>>, <<cy + s, cx>>, <<cy + s, cx>>, <<cy + s, cx + s>> >>

\* A diamond step that averages its own centre in place of the far corner.
DiamondReadsOfCentre(cy, cx, s) ==
    << <<cy, cx>>, <<cy + s, cx>>, <<cy, cx + s>>, <<cy + s \div 2, cx + s \div 2>> >>

\* The four reads of the diamond step, lines 34-37, in evaluation order.
DiamondReads(cy, cx, s) ==
    << <<cy, cx>>, <<cy + s, cx>>, <<cy, cx + s>>, <<cy + s, cx + s>> >>

\* A diamond step that assigns the cell's corner, not its centre.
DiamondTargetNoHalf(cy, cx, s) == <<cy, cx>>

\* A diamond step with row and column swapped in the assignment.
DiamondTargetSwapped(cy, cx, s) == <<cx + s \div 2, cy + s \div 2>>

\* The cell the diamond step assigns, line 40.
DiamondTarget(cy, cx, s) == <<cy + s \div 2, cx + s \div 2>>

\* Diamond step, lines 31-42: one iteration of the inner loop at (y, x).
DiamondStep ==
    /\ pc = "diamond"
    /\ LET rd == DiamondReads(y, x, step_size)
           t == DiamondTarget(y, x, step_size)
       IN IF \E i \in 1 .. 4 : ~InBounds(rd[i][1], size) \/ ~InBounds(rd[i][2], size)
            THEN /\ pc' = "IndexError"
                 /\ UNCHANGED <<heightmap, draws, written, y, x>>
            ELSE /\ \E q \in DrawSet :
                     LET avg == (heightmap[rd[1]] + heightmap[rd[2]]
                                 + heightmap[rd[3]] + heightmap[rd[4]]) \div 4
                     IN /\ heightmap' = Assign(heightmap, t[1], t[2],
                                           avg + get_random_offset(q, range_size))
                        /\ draws' = Append(draws,
                              Entry("diamond", step_size, t[1], t[2], q, 4))
                 /\ OddDraws(draws', runs) <= MaxOddDraws
                 /\ written' = Count(written, t[1], t[2])
                 /\ IF x + step_size < size - 1
                      THEN /\ x' = x + step_size
                           /\ UNCHANGED <<y, pc>>
                      ELSE IF y + step_size < size - 1
                             THEN /\ y' = y + step_size
                                  /\ x' = 0
                                  /\ pc' = pc
                             ELSE /\ y' = 0
                                  /\ x' = SquareStartX(0, step_size \div 2, step_size)
                                  /\ pc' = "square"
    /\ UNCHANGED <<size, step_size, range_size, passes, raw, runs, first>>

\* A square step whose top and left guards are strict.
SquareNeighboursStrict(cy, cx, half_step) ==
    (IF cy > half_step THEN << <<cy - half_step, cx>> >> ELSE <<>>)
    \o (IF cy + half_step < size THEN << <<cy + half_step, cx>> >> ELSE <<>>)
    \o (IF cx > half_step THEN << <<cy, cx - half_step>> >> ELSE <<>>)
    \o (IF cx + half_step < size THEN << <<cy, cx + half_step>> >> ELSE <<>>)

\* A square step that looks a whole step away, not half a step.
SquareNeighboursFullStep(cy, cx, half_step) ==
    (IF cy >= 2 * half_step THEN << <<cy - 2 * half_step, cx>> >> ELSE <<>>)
    \o (IF cy + 2 * half_step < size THEN << <<cy + 2 * half_step, cx>> >> ELSE <<>>)
    \o (IF cx >= 2 * half_step THEN << <<cy, cx - 2 * half_step>> >> ELSE <<>>)
    \o (IF cx + 2 * half_step < size THEN << <<cy, cx + 2 * half_step>> >> ELSE <<>>)

\* A square step that reads the cell above without a guard.
SquareNeighboursNoTopGuard(cy, cx, half_step) ==
    << <<cy - half_step, cx>> >>
    \o (IF cy + half_step < size THEN << <<cy + half_step, cx>> >> ELSE <<>>)
    \o (IF cx >= half_step THEN << <<cy, cx - half_step>> >> ELSE <<>>)
    \o (IF cx + half_step < size THEN << <<cy, cx + half_step>> >> ELSE <<>>)

\* The neighbours the square step averages at (cy, cx), lines 51-62: the
\* four guarded reads, in the order top, bottom, left, right.
SquareNeighbours(cy, cx, half_step) ==
    (IF cy >= half_step THEN << <<cy - half_step, cx>> >> ELSE <<>>)
    \o (IF cy + half_step < size THEN << <<cy + half_step, cx>> >> ELSE <<>>)
    \o (IF cx >= half_step THEN << <<cy, cx - half_step>> >> ELSE <<>>)
    \o (IF cx + half_step < size THEN << <<cy, cx + half_step>> >> ELSE <<>>)

RECURSIVE SumAt(_, _)
SumAt(h, cs) == IF cs = <<>> THEN 0 ELSE h[Head(cs)] + SumAt(h, Tail(cs))

\* Square step, lines 45-65: one iteration of the inner loop at (y, x).
SquareStep ==
    /\ pc = "square"
    /\ LET half_step == step_size \div 2
           nb == SquareNeighbours(y, x, half_step)
           count == Len(nb)
           avg == SumAt(heightmap, nb) \div count
       IN /\ \E q \in DrawSet :
               /\ heightmap' = Assign(heightmap, y, x,
                                  avg + get_random_offset(q, range_size))
               /\ draws' = Append(draws, Entry("square", step_size, y, x, q, count))
          /\ OddDraws(draws', runs) <= MaxOddDraws
          /\ written' = Count(written, y, x)
          /\ IF x + step_size < size
               THEN /\ x' = x + step_size
                    /\ UNCHANGED <<y, pc>>
               ELSE IF y + half_step < size
                      THEN /\ y' = y + half_step
                           /\ x' = SquareStartX(y + half_step, half_step, step_size)
                           /\ pc' = pc
                      ELSE /\ pc' = "endpass"
                           /\ UNCHANGED <<y, x>>
    /\ UNCHANGED <<size, step_size, range_size, passes, raw, runs, first>>

\* A loop that steps down by one.
NextStepSizeMinusOne(s) == s - 1

\* step_size //= 2
NextStepSize(s) == s \div 2

\* A pass that leaves range_size as it was.
NextRangeSizeSame(r) == r

\* range_size *= 0.5
NextRangeSize(r) == r \div 2

\* Lines 67-68: the end of one pass of the while loop.
EndPass ==
    /\ pc = "endpass"
    /\ step_size' = NextStepSize(step_size)
    /\ range_size' = NextRangeSize(range_size)
    /\ passes' = passes + 1
    /\ pc' = "while"
    /\ UNCHANGED <<size, heightmap, y, x, draws, written, raw, runs, first>>

\* np.min / np.max over the grid
MinOf(h) == CHOOSE v \in {h[c] : c \in DOMAIN h} : \A c \in DOMAIN h : v <= h[c]
MaxOf(h) == CHOOSE v \in {h[c] : c \in DOMAIN h} : \A c \in DOMAIN h : v >= h[c]

\* (self.heightmap - min_val) / (max_val - min_val), line 76: the division
\* is made whatever the divisor; 0/0 is NaN (den = 0).
Rescale(h) ==
    LET min_val == MinOf(h)
        max_val == MaxOf(h)
    IN [c \in DOMAIN h |-> [num |-> h[c] - min_val, den |-> max_val - min_val]]

IsNaN(v) == v.den = 0

\* generate_coastline, lines 74-76.
Normalize ==
    /\ pc = "normalize"
    /\ heightmap' = Rescale(heightmap)
    /\ raw' = heightmap
    /\ pc' = "colormap"
    /\ UNCHANGED <<size, step_size, range_size, y, x, draws, written, passes,
                   runs, first>>

\* generate_coastline, lines 79-97: int() of a NaN raises ValueError, any
\* other height is coloured and the image returned.
ColorMap ==
    /\ pc = "colormap"
    /\ IF \E c \in DOMAIN heightmap : IsNaN(heightmap[c])
         THEN pc' = "ValueError"
         ELSE pc' = "done"
    /\ first' = IF runs = 1 THEN heightmap ELSE first
    /\ UNCHANGED <<size, heightmap, step_size, range_size, y, x, draws,
                   written, passes, raw, runs>>

Next ==
    \/ Construct
    \/ InitCorners
    \/ LoopTest
    \/ DiamondStep
    \/ SquareStep
    \/ EndPass
    \/ Normalize
    \/ ColorMap

Spec == Init /\ [][Next]_vars

\* create_coastline_image(size) called once more in the same process, with
\* the size of the first call: a new generator, the same random module.
Rerun ==
    /\ pc = "done"
    /\ runs = 1
    /\ size <= MaxRerunSize
    /\ heightmap' = [c \in Cells(size) |-> 0]
    /\ written' = [c \in Cells(size) |-> 0]
    /\ pc' = "corners"
    /\ runs' = runs + 1
    /\ passes' = 0
    /\ raw' = <<>>
    /\ UNCHANGED <<size, step_size, range_size, y, x, draws, first>>

\* A process that may generate twice.
SpecRuns == Init /\ [][Next \/ Rerun]_vars

\* Steps of a normalized height kept by the second call's starting grid.
StaleSteps == 256

\* A normalized height in [0, 1] as an elevation, to 1/StaleSteps.
Stale(v) == ((v.num * StaleSteps) \div v.den) * (Scale \div StaleSteps)

\* generate_coastline() called once more on the same generator: self.heightmap
\* still holds the normalized heights of the first call, and diamond_square
\* starts from them.
Regenerate ==
    /\ pc = "done"
    /\ runs = 1
    /\ size <= MaxRerunSize
    /\ heightmap' = [c \in Cells(size) |-> Stale(heightmap[c])]
    /\ written' = [c \in Cells(size) |-> 0]
    /\ pc' = "corners"
    /\ runs' = runs + 1
    /\ passes' = 0
    /\ UNCHANGED <<size, step_size, range_size, y, x, draws, raw, first>>

\* The draws of the second call repeat those of the first, one for one.
SameDraws ==
    runs = 2 =>
        LET n == Cardinality({i \in 1 .. Len(draws) : draws[i].run = 1})
        IN \A k \in Len(draws) + 1 .. Len(draws') :
              k > n /\ draws'[k].q = draws'[k - n].q

\* A generator used twice, the random module returning in the second call
\* what it returned in the first.
AgainNext ==
    \/ Construct
    \/ InitCorners /\ SameDraws
    \/ LoopTest
    \/ DiamondStep /\ SameDraws
    \/ SquareStep /\ SameDraws
    \/ EndPass
    \/ Normalize
    \/ ColorMap
    \/ Regenerate

SpecAgain == Init /\ [][AgainNext]_vars

\* The offset drawn by the step, if it drew one, is 0.
EvenDraw == draws' # draws => draws'[Len(draws')].q = 2

\* The steps of one call with any corners and every offset 0: the loop's
\* control reads size and step_size only, never the grid or a draw.
LiveNext ==
    \/ Construct
    \/ InitCorners
    \/ LoopTest
    \/ DiamondStep /\ EvenDraw
    \/ SquareStep /\ EvenDraw
    \/ EndPass
    \/ Normalize
    \/ ColorMap

\* The code is sequential and synchronous: a step that can be taken is taken.
LiveSpec == Init /\ [][LiveNext]_vars /\ WF_vars(LiveNext)

\* ------------------------------------------------------------ vocabulary
RECURSIVE IsPowerOfTwo(_)
IsPowerOfTwo(n) == IF n <= 1 THEN n = 1 ELSE n % 2 = 0 /\ IsPowerOfTwo(n \div 2)

\* size = 2^n + 1 with n >= 1
ValidSize(n) == n >= 3 /\ IsPowerOfTwo(n - 1)

Corners(n) == {<<0, 0>>, <<0, n - 1>>, <<n - 1, 0>>, <<n - 1, n - 1>>}

\* Normalization has been made in the running call.
Normalized == pc \in {"colormap", "done", "ValueError"}

\* The logged draws of the running call.
RunDraws == SelectSeq(draws, LAMBDA e : e.run = runs)

\* ---------------------------------------------------------------- claims

\* C1: a size that is not 2^n + 1 with n >= 1 is refused at construction with
\* InvalidSizeError: no grid exists and no pass has run for such a size.
C1_InvalidSizeRejected ==
    (pc # "new" /\ ~ValidSize(size)) =>
        /\ pc = "InvalidSizeError"
        /\ heightmap = <<>>
        /\ passes = 0

\* C2: for a valid size, once normalization is made the heightmap has exactly
\* size x size cells and every cell is a number v with 0 <= v <= 1.
C2_NormalizedInUnitRange ==
    (Normalized /\ ValidSize(size)) =>
        /\ DOMAIN heightmap = Cells(size)
        /\ \A c \in DOMAIN heightmap :
              /\ heightmap[c].den > 0
              /\ 0 <= heightmap[c].num
              /\ heightmap[c].num <= heightmap[c].den

RECURSIVE Gcd(_, _)
Gcd(a, b) == IF b = 0 THEN a ELSE Gcd(b, a % b)

\* Two normalized cells hold the same number (NaN equals nothing).
SameValue(u, v) ==
    /\ u.den > 0
    /\ v.den > 0
    /\ LET gu == Gcd(u.den, u.num)
           gv == Gcd(v.den, v.num)
       IN /\ u.num \div gu = v.num \div gv
          /\ u.den \div gu = v.den \div gv

\* C3: two calls with the same valid size (roughness is fixed, the code takes
\* no seed) return the same heightmap, cell for cell.
C3_SameInputsSameHeightmap ==
    (runs = 2 /\ pc = "done" /\ ValidSize(size)) =>
        \A c \in DOMAIN heightmap : SameValue(heightmap[c], first[c])

\* C4: for a valid size, when the grid diamond_square leaves has min = max,
\* normalization reports DegenerateRangeError, or returns the uniform
\* fallback 0.5; it does not divide by max - min = 0.
C4_DegenerateRangeReported ==
    (raw # <<>> /\ ValidSize(size) /\ MinOf(raw) = MaxOf(raw)) =>
        \/ pc = "DegenerateRangeError"
        \/ \A c \in DOMAIN heightmap :
              heightmap[c].den > 0 /\ 2 * heightmap[c].num = heightmap[c].den

\* C5: for a valid size, when diamond_square returns every cell has been
\* assigned at least once.
C5_AllCellsAssigned ==
    (pc = "normalize" /\ ValidSize(size)) =>
        \A c \in Cells(size) : written[c] >= 1

C5_Witness ==
    /\ pc = "normalize"
    /\ ValidSize(size)
    /\ size >= 5
    /\ \A c \in Cells(size) : written[c] >= 1

\* C6: for a valid size, each corner is assigned exactly once, by the first
\* four draws of the call, and no diamond or square step assigns a corner.
C6_CornersWrittenOnce ==
    (ValidSize(size) /\ pc \notin {"new", "corners"}) =>
        /\ \A c \in Corners(size) : written[c] = 1
        /\ LET rd == RunDraws
           IN \A i \in 1 .. Len(rd) :
                 /\ (rd[i].kind = "corner") <=> (i <= 4)
                 /\ rd[i].kind # "corner" =>
                       <<rd[i].y, rd[i].x>> \notin Corners(size)

C6_Witness ==
    /\ pc = "normalize"
    /\ ValidSize(size)
    /\ size >= 5
    /\ \A c \in Corners(size) : written[c] = 1
    /\ \E i \in 1 .. Len(RunDraws) : RunDraws[i].kind = "square" /\ RunDraws[i].y = 0

\* Order of two normalized cells; a comparison with NaN is false.
FracLeq(u, v) ==
    /\ u.den > 0
    /\ v.den > 0
    /\ IF u.den = v.den THEN u.num <= v.num
                        ELSE u.num * v.den <= v.num * u.den

\* C7: for a valid size, normalization keeps the order of any two cells, maps
\* the cells holding the raw minimum to 0 and those holding the maximum to 1.
C7_NormalizationMonotonic ==
    (Normalized /\ ValidSize(size)) =>
        /\ \A a, b \in Cells(size) :
              raw[a] <= raw[b] => FracLeq(heightmap[a], heightmap[b])
        /\ \A a \in Cells(size) :
              /\ raw[a] = MinOf(raw) =>
                    heightmap[a].den > 0 /\ heightmap[a].num = 0
              /\ raw[a] = MaxOf(raw) =>
                    heightmap[a].den > 0 /\ heightmap[a].num = heightmap[a].den

\* The up/down/left/right cells at distance d of (cy, cx) that are in the grid.
GridNeighbours(cy, cx, d) ==
    {p \in {<<cy - d, cx>>, <<cy + d, cx>>, <<cy, cx - d>>, <<cy, cx + d>>} :
        p[1] \in 0 .. size - 1 /\ p[2] \in 0 .. size - 1}

OnEdge(cy, cx) == cy = 0 \/ cy = size - 1 \/ cx = 0 \/ cx = size - 1

\* C8: for a valid size, the square step just made averaged as many
\* neighbours as its point has in-grid neighbours at distance step_size/2:
\* 2 at a corner of the grid, 3 on an edge off the corners, 4 in the interior.
C8_SquareNeighbourCount ==
    (ValidSize(size) /\ draws # <<>> /\ draws[Len(draws)].run = runs
        /\ draws[Len(draws)].kind = "square") =>
        LET e == draws[Len(draws)]
        IN /\ e.count = Cardinality(GridNeighbours(e.y, e.x, e.step \div 2))
           /\ <<e.y, e.x>> \in Corners(size) => e.count = 2
           /\ (OnEdge(e.y, e.x) /\ <<e.y, e.x>> \notin Corners(size)) => e.count = 3
           /\ ~OnEdge(e.y, e.x) => e.count = 4

C8_Witness ==
    /\ ValidSize(size)
    /\ \E i, j \in 1 .. Len(RunDraws) :
          /\ RunDraws[i].kind = "square"
          /\ OnEdge(RunDraws[i].y, RunDraws[i].x)
          /\ RunDraws[i].count = 3
          /\ RunDraws[j].kind = "square"
          /\ ~OnEdge(RunDraws[j].y, RunDraws[j].x)
          /\ RunDraws[j].count = 4

\* The loop as a state machine over step_size, for a valid size.
C9_LoopInvariant ==
    ValidSize(size) =>
        /\ pc \in {"diamond", "square", "endpass"} => step_size > 1
        /\ pc \in {"while", "diamond", "square", "endpass", "normalize"} =>
              step_size * Pow(2, passes) = size - 1
        /\ pc = "normalize" => step_size = 1

\* C9: for a valid size N = 2^n + 1, step_size starts at N - 1 and is halved
\* by each pass, the loop body never runs with step_size <= 1, and the loop
\* ends, after exactly n passes, with step_size = 1.
C9_LoopStateMachine ==
    /\ []C9_LoopInvariant
    /\ (pc = "while" /\ passes = 0 /\ ValidSize(size)) ~>
          (pc = "normalize" /\ step_size = 1 /\ Pow(2, passes) = size - 1)

C9_Witness ==
    /\ pc = "normalize"
    /\ ValidSize(size)
    /\ passes >= 2
    /\ step_size = 1
    /\ Pow(2, passes) = size - 1

\* Cells both of whose coordinates are odd multiples of s/2.
DiamondCells(s) ==
    {c \in Cells(size) : c[1] % s = s \div 2 /\ c[2] % s = s \div 2}

\* Cells with exactly one coordinate an odd multiple of s/2, the other a
\* multiple of s.
SquareCells(s) ==
    {c \in Cells(size) : \/ c[1] % s = 0 /\ c[2] % s = s \div 2
                         \/ c[1] % s = s \div 2 /\ c[2] % s = 0}

RECURSIVE RowMajor(_, _, _)
\* The cells of S top to bottom, left to right within a row, tagged.
RowMajor(S, kind, s) ==
    IF S = {} THEN <<>>
    ELSE LET m == CHOOSE c \in S :
                    \A d \in S : c[1] < d[1] \/ (c[1] = d[1] /\ c[2] <= d[2])
         IN << <<kind, s, m[1], m[2]>> >> \o RowMajor(S \ {m}, kind, s)

RECURSIVE PassOrder(_)
\* The draws of the passes from step size s down.
PassOrder(s) ==
    IF s <= 1 THEN <<>>
    ELSE RowMajor(DiamondCells(s), "diamond", s)
         \o RowMajor(SquareCells(s), "square", s)
         \o PassOrder(s \div 2)

\* The order of draws the size alone fixes.
ExpectedOrder ==
    RowMajor(Corners(size), "corner", 0) \o PassOrder(size - 1)

\* C10: for a valid size, the draws of one call are the four corners, then
\* for each pass, coarsest first, its diamond cells in row-major order and
\* after them its square cells: an order fixed by size, whatever is drawn.
C10_DrawOrderFixed ==
    (pc = "normalize" /\ ValidSize(size)) =>
        [i \in 1 .. Len(RunDraws) |->
            <<RunDraws[i].kind, RunDraws[i].step, RunDraws[i].y, RunDraws[i].x>>]
          = ExpectedOrder

C10_Witness ==
    /\ pc = "normalize"
    /\ ValidSize(size)
    /\ size >= 5
    /\ Len(RunDraws) = size * size
    /\ \E i \in 1 .. Len(RunDraws) : RunDraws[i].q # 2

\* The loop of diamond_square is running.
InLoop == pc \in {"while", "diamond", "square", "endpass"}

\* The draw just made, if it is one of the running call.
LastDraw == draws[Len(draws)]
HasLastDraw == draws # <<>> /\ draws[Len(draws)].run = runs

\* C11: for a valid size, from the start of a pass with step size s every
\* cell whose row and column are multiples of s has been written; a step of
\* the pass writes a diamond midpoint (both coordinates odd multiples of s/2)
\* or a square point (exactly one), and no cell is ever written twice.
C11_PassWritesOnlyNewCells ==
    (ValidSize(size) /\ InLoop) =>
        /\ \A c \in Cells(size) :
              /\ written[c] <= 1
              /\ (step_size >= 1 /\ c[1] % step_size = 0 /\ c[2] % step_size = 0)
                    => written[c] = 1
        /\ (HasLastDraw /\ LastDraw.kind = "diamond") =>
              /\ LastDraw.y % LastDraw.step = LastDraw.step \div 2
              /\ LastDraw.x % LastDraw.step = LastDraw.step \div 2
        /\ (HasLastDraw /\ LastDraw.kind = "square") =>
              \/ /\ LastDraw.y % LastDraw.step = 0
                 /\ LastDraw.x % LastDraw.step = LastDraw.step \div 2
              \/ /\ LastDraw.y % LastDraw.step = LastDraw.step \div 2
                 /\ LastDraw.x % LastDraw.step = 0

C11_Witness ==
    /\ ValidSize(size)
    /\ pc = "diamond"
    /\ passes >= 1
    /\ y = 0
    /\ x = 0
    /\ \A c \in Cells(size) :
          (c[1] % step_size = 0 /\ c[2] % step_size = 0) <=> written[c] = 1

\* The cells a logged step read, as the code names them.
EntryReads(e) ==
    IF e.kind = "diamond"
      THEN DiamondReads(e.y - e.step \div 2, e.x - e.step \div 2, e.step)
      ELSE IF e.kind = "square"
             THEN SquareNeighbours(e.y, e.x, e.step \div 2)
             ELSE <<>>

SeqRange(sq) == {sq[i] : i \in 1 .. Len(sq)}

\* The logged steps of one kind in the running pass.
PhaseDraws(kind) ==
    {i \in 1 .. Len(draws) :
        draws[i].run = runs /\ draws[i].kind = kind /\ draws[i].step = step_size}

\* The steps of one kind in the running pass write distinct cells, none reads
\* a cell another of them writes, and the grid they leave is the one a
\* simultaneous update gives: each cell the mean of its reads plus its own
\* offset.
PhaseIndependent(kind) ==
    LET P == PhaseDraws(kind)
        T == {<<draws[i].y, draws[i].x>> : i \in P}
    IN /\ Cardinality(T) = Cardinality(P)
       /\ \A i \in P : \A c \in SeqRange(EntryReads(draws[i])) : c \notin T
       /\ \A i \in P :
             LET rd == EntryReads(draws[i])
             IN heightmap[<<draws[i].y, draws[i].x>>]
                  = SumAt(heightmap, rd) \div Len(rd)
                    + get_random_offset(draws[i].q, range_size)

\* C12: for a valid size, the diamond steps of one pass write pairwise
\* distinct cells and read none of them, and so do its square steps; the grid
\* each phase leaves does not depend on the order of its steps.
C12_StepsOfAPhaseIndependent ==
    ValidSize(size) =>
        /\ (pc = "square" /\ HasLastDraw /\ LastDraw.kind = "diamond")
              => PhaseIndependent("diamond")
        /\ pc = "endpass" => PhaseIndependent("square")

C12_Witness ==
    /\ ValidSize(size)
    /\ pc = "endpass"
    /\ passes >= 1
    /\ Cardinality(PhaseDraws("square")) > 4
    /\ Cardinality(PhaseDraws("diamond")) >= 4
    /\ PhaseIndependent("square")
    /\ \E i \in PhaseDraws("square") : draws[i].q # 2

\* The midpoints the diamond step of a pass with step size s has to set.
Midpoints(s) ==
    LET L == {k \in 0 .. size - 2 : k % s = 0}
    IN {<<a + s \div 2, b + s \div 2>> : a, b \in L}

\* C13: for a valid size, a diamond step at (y, x), both multiples of the
\* step size s and below N-1, sets (y + s/2, x + s/2) to the mean of (y, x),
\* (y+s, x), (y, x+s), (y+s, x+s) plus one fresh offset drawn with the current
\* range_size and changes no other cell; when the diamond phase ends it has
\* set exactly the midpoints of the pass.
C13_DiamondStep ==
    [][(pc = "diamond" /\ ValidSize(size)) =>
          LET s == step_size
              t == <<y + s \div 2, x + s \div 2>>
              mean == (heightmap[<<y, x>>] + heightmap[<<y + s, x>>]
                       + heightmap[<<y, x + s>>] + heightmap[<<y + s, x + s>>])
                      \div 4
          IN /\ pc' \in {"diamond", "square"}
             /\ y % s = 0 /\ x % s = 0 /\ y < size - 1 /\ x < size - 1
             /\ Len(draws') = Len(draws) + 1
             /\ heightmap'[t] = mean
                  + get_random_offset(draws'[Len(draws')].q, range_size)
             /\ \A c \in Cells(size) \ {t} : heightmap'[c] = heightmap[c]
             /\ range_size' = range_size
             /\ pc' = "square" =>
                  {<<draws'[i].y, draws'[i].x>> : i \in PhaseDraws("diamond")'}
                    = Midpoints(s)
    ]_vars

\* A diamond phase of the second pass has ended, one of its offsets not 0.
C13_Witness ==
    /\ ValidSize(size)
    /\ pc = "square"
    /\ passes >= 1
    /\ HasLastDraw
    /\ LastDraw.kind = "diamond"
    /\ \E i \in PhaseDraws("diamond") : draws[i].q # 2
    /\ {<<draws[i].y, draws[i].x>> : i \in PhaseDraws("diamond")}
         = Midpoints(step_size)
    /\ Cardinality(Midpoints(step_size)) >= 4

Abs(v) == IF v < 0 THEN -v ELSE v

\* The offset the step logged as e added to the mean of the cells it read.
AppliedOffset(e) ==
    LET rd == EntryReads(e)
    IN heightmap[<<e.y, e.x>>] - SumAt(heightmap, rd) \div Len(rd)

\* The last draw is a diamond or square draw of the running pass.
LastDrawInPass ==
    /\ pc \in {"diamond", "square", "endpass"}
    /\ HasLastDraw
    /\ LastDraw.kind \in {"diamond", "square"}
    /\ LastDraw.step = step_size

\* C14: range_size is 1.0 in the first pass and is halved exactly once per
\* pass, together with step_size; the offset of every diamond and square
\* draw is (random - 0.5) * roughness times the range_size of its pass, so at
\* most range_size * roughness / 2 in magnitude, and range_size never grows.
C14_AmplitudeDecay ==
    InLoop =>
        /\ range_size * Pow(2, passes) = Scale
        /\ range_size <= Scale
        /\ ValidSize(size) => range_size * (size - 1) = Scale * step_size
        /\ LastDrawInPass =>
              /\ AppliedOffset(LastDraw) * 4 * RoughnessDen
                   = (LastDraw.q - 2) * range_size * RoughnessNum
              /\ Abs(AppliedOffset(LastDraw)) * 2 * RoughnessDen
                   <= range_size * RoughnessNum

\* A square draw of the second pass with random() = 0.0: the largest offset
\* the pass allows, half of the largest offset of the first pass.
C14_Witness ==
    /\ ValidSize(size)
    /\ passes = 1
    /\ LastDrawInPass
    /\ LastDraw.kind = "square"
    /\ LastDraw.q = 0
    /\ range_size * 2 = Scale
    /\ Abs(AppliedOffset(LastDraw)) * 2 * RoughnessDen = range_size * RoughnessNum
    /\ \E i \in 1 .. Len(draws) : draws[i].run = runs /\ draws[i].kind = "diamond"
                                   /\ draws[i].step = step_size

\* An index pair that names a cell without wrapping.
InGrid(c) == c[1] \in 0 .. size - 1 /\ c[2] \in 0 .. size - 1

\* C15: for a valid size, every index the diamond step and the square step
\* read or write is in [0, N-1] on both axes: the step about to run and the
\* step just made use no index past the end and no negative index, and no
\* IndexError is raised.
C15_IndicesInGrid ==
    ValidSize(size) =>
        /\ pc # "IndexError"
        /\ pc = "diamond" =>
              /\ \A c \in SeqRange(DiamondReads(y, x, step_size)) : InGrid(c)
              /\ InGrid(DiamondTarget(y, x, step_size))
        /\ pc = "square" =>
              /\ \A c \in SeqRange(SquareNeighbours(y, x, step_size \div 2)) :
                    InGrid(c)
              /\ InGrid(<<y, x>>)
        /\ (InLoop /\ HasLastDraw /\ LastDraw.kind \in {"diamond", "square"}) =>
              /\ \A c \in SeqRange(EntryReads(LastDraw)) : InGrid(c)
              /\ InGrid(<<LastDraw.y, LastDraw.x>>)

\* The last square step of the second pass, on the bottom edge, has run: it
\* read three cells, the one below the grid left out.
C15_Witness ==
    /\ ValidSize(size)
    /\ pc = "endpass"
    /\ passes >= 1
    /\ HasLastDraw
    /\ LastDraw.kind = "square"
    /\ LastDraw.y = size - 1
    /\ Len(EntryReads(LastDraw)) = 3
    /\ \A c \in SeqRange(EntryReads(LastDraw)) : InGrid(c)

\* C16: for a valid size every cell a diamond or square step reads was
\* written earlier in the same call, and a second call on the same generator,
\* which starts from the normalized grid of the first, with the same draws
\* leaves the grid the first call left, before and after normalization.
C16_NoDependenceOnPriorContents ==
    ValidSize(size) =>
        /\ pc = "diamond" =>
              \A c \in SeqRange(DiamondReads(y, x, step_size)) : written[c] >= 1
        /\ pc = "square" =>
              \A c \in SeqRange(SquareNeighbours(y, x, step_size \div 2)) :
                 written[c] >= 1
        /\ (runs = 2 /\ pc = "normalize") => heightmap = raw
        /\ (runs = 2 /\ Normalized) => heightmap = first

\* The second call on a generator of size 5 or more has returned; it started
\* from a grid that was not all zeros.
C16_Witness ==
    /\ ValidSize(size)
    /\ size >= 5
    /\ runs = 2
    /\ pc = "done"
    /\ heightmap = first
    /\ \E c \in Cells(size) : Stale(first[c]) # 0
    /\ \A c \in Cells(size) : written[c] = 1
=============================================================================
